---- MODULE Spec2Model ----
(***************************************************************************)
(* Model of the conversation orchestration server                          *)
(* (src/conv_orchestration.py, src/utils/dataproc.py,                      *)
(* src/utils/conversation_stage.py): the in-memory session store, the      *)
(* client operations on it and the webhook handler, whose code is taken    *)
(* step by step so that the position of every delivery is part of the      *)
(* state.  Spec runs one delivery at a time; ConcSpec lets the steps of    *)
(* several deliveries and the client operations interleave, as the         *)
(* threaded server does.                                                   *)
(***************************************************************************)
EXTENDS Integers, Sequences, FiniteSets, TLC

VARIABLES
    sessions,   \* the session store, in insertion order (dict iteration order)
    handlers,   \* one record per webhook delivery being handled or just
                \* answered, in order of receipt
    received,   \* the number of deliveries received so far
    emitted,    \* the 'webhook_update' emissions of these deliveries, in order
    now,        \* the clock datetime.utcnow() reads, in seconds
    call        \* the call under observation: the 'conversation_started'
                \* event the latest step handled, with what it emitted; or,
                \* where a function is studied on its own, its argument and
                \* its outcome

vars == <<sessions, handlers, received, emitted, now, call>>

\* ------------------------------------------------------------ bounds
MaxSessions == 2
MaxDeliveries == 2

\* ------------------------------------------------- program constants
\* the recency window of the fallback, in seconds
RecencyWindow == 300

\* Python's None / JSON null
None == "None"

\* ConversationStatus
INITIALIZING == "initializing"
ACTIVE == "active"
COMPLETED == "completed"
ERROR == "error"

\* Config.WEBHOOK_SECRET
WEBHOOK_SECRET == "wsec"

\* agent_configs: key -> agent_id (two of the four registered agents)
agent_configs == [clara |-> "agent_clara", marcus |-> "agent_marcus"]

\* the instants the clock is observed at: inside and outside the recency
\* window of a session created at 0
TimePoints == {0, RecencyWindow}

\* ------------------------------------------------------------ inputs
PCT == "post_call_transcription"

WebhookTypes == {PCT, "conversation.completed", "conversation.error",
                 "conversation.update"}

ConversationIds == {"c1", "c2"}

\* agent ids a callback may declare: a registered one, an unknown one, none
DeclaredAgents == {None, "agent_clara", "agent_zed"}

\* JSON values whose shape the code depends on
JNull == [json |-> "null"]
JArray(items) == [json |-> "array", items |-> items]
JString(chars) == [json |-> "string", chars |-> chars]

Transcript1 == JArray(<< [role |-> "agent", message |-> "hello"],
                         [role |-> "user", message |-> ""] >>)
Transcript2 == JArray(<< [role |-> "user", message |-> "yes"] >>)
Summary1 == JString(<<"o", "k">>)

\* what the rest of a post-call payload holds: data.transcript (null is not
\* iterable) and data.analysis.transcript_summary (possibly null)
PlainContent == [transcript |-> Transcript1, summary |-> Summary1]
OtherContent == [transcript |-> Transcript2, summary |-> Summary1]
NullTranscript == [transcript |-> JNull, summary |-> Summary1]
NullSummary == [transcript |-> Transcript1, summary |-> JNull]

DataOf(cid, agent, content) ==
    [conversation_id |-> cid, agent_id |-> agent,
     transcript |-> content.transcript, summary |-> content.summary]

PostCallBodies ==
    { [type |-> PCT, data |-> DataOf(cid, a, PlainContent)] :
        cid \in {"c1", None}, a \in DeclaredAgents }
    \cup { [type |-> PCT, data |-> DataOf("c1", "agent_clara", c)] :
             c \in {OtherContent, NullTranscript, NullSummary} }

OtherBodies ==
    { [type |-> t, data |-> DataOf("c1", None, PlainContent)] :
        t \in WebhookTypes \ {PCT} }
    \cup { [type |-> "conversation.update", data |-> DataOf(None, None, PlainContent)] }

\* a JSON body that is not an object, and an object whose 'data' is null
NonObjectBody == JArray(<< >>)
NullDataBody == [type |-> PCT, data |-> JNull]

Bodies == PostCallBodies \cup OtherBodies \cup {NonObjectBody, NullDataBody}

\* hmac.new(key, payload, sha256).hexdigest(): a tag that fixes key and payload
HmacSha256(key, payload) == <<"hmac", key, payload>>

\* no 'elevenlabs-signature' header
NoHeader == << >>

\* bodies sent unsigned or signed under another key
UnauthenticBodies ==
    { [type |-> PCT, data |-> DataOf("c1", "agent_clara", PlainContent)] }

Requests ==
    { [signature |-> HmacSha256(WEBHOOK_SECRET, b), body |-> b] : b \in Bodies }
    \cup { [signature |-> NoHeader, body |-> b] : b \in UnauthenticBodies }
    \cup { [signature |-> HmacSha256("other", b), body |-> b] : b \in UnauthenticBodies }

\* ----------------------------------------------------- pure helpers
Min(S) == CHOOSE x \in S : \A y \in S : x <= y

\* dict.get(key, default)
Get(d, key, default) == IF key \in DOMAIN d THEN d[key] ELSE default

\* d[key] = value on a dict
Put(d, key, value) == (key :> value) @@ d

\* the empty dict {}
EmptyDict == << >>

\* verify_webhook_signature: a missing header fails; a header that differs
\* from the expected digest is logged and accepted
verify_webhook_signature(req) ==
    IF req.signature = NoHeader
    THEN FALSE
    ELSE IF req.signature # HmacSha256(WEBHOOK_SECRET, req.body)
         THEN TRUE
         ELSE TRUE

\* webhook_data.get('type') and webhook_data.get('data', {}).get(...) raise on
\* a body that is not an object and on a null 'data'
ParseRaises(body) ==
    \/ "type" \notin DOMAIN body
    \/ "conversation_id" \notin DOMAIN body.data

\* mutant: the scan looks at open sessions only
ExactMatchOpenOnly(S, cid) ==
    LET M == { i \in DOMAIN S : S[i].conversation_id = cid
                                /\ S[i].status \in {ACTIVE, INITIALIZING} }
    IN  IF M = {} THEN 0 ELSE Min(M)

\* the scan for sess.conversation_id == conversation_id: the first session in
\* iteration order, 0 for none
ExactMatch(S, cid) ==
    LET M == { i \in DOMAIN S : S[i].conversation_id = cid }
    IN  IF M = {} THEN 0 ELSE Min(M)

Open == {ACTIVE, INITIALIZING}

\* mutant: the agent filter is lost
MatchingSessionsAnyAgent(S, agent) ==
    { i \in DOMAIN S : S[i].status \in Open }

\* matching_sessions
MatchingSessions(S, agent) ==
    { i \in DOMAIN S : S[i].agent_id = agent /\ S[i].status \in Open }

\* mutant: the status filter is lost
RecentSessionsAnyStatus(S, t) ==
    { i \in DOMAIN S : t - S[i].created_at < RecencyWindow }

\* mutant: the window includes its end
RecentSessionsInclusive(S, t) ==
    { i \in DOMAIN S : S[i].status \in Open /\ t - S[i].created_at <= RecencyWindow }

\* recent_sessions
RecentSessions(S, t) ==
    { i \in DOMAIN S : S[i].status \in Open /\ t - S[i].created_at < RecencyWindow }

\* max(..., key=lambda s: s.created_at): the first of the latest ones
MaxByCreated(S, I) ==
    CHOOSE i \in I : \A j \in I :
        \/ S[j].created_at < S[i].created_at
        \/ S[j].created_at = S[i].created_at /\ i <= j

\* mutant: a full minute is still given in seconds
format_duration_late(seconds) ==
    IF seconds <= 60
    THEN <<ToString(seconds), " seconds">>
    ELSE IF seconds <= 3600
         THEN <<ToString(seconds \div 60), "m ", ToString(seconds % 60), "s">>
         ELSE <<ToString(seconds \div 3600), "h ",
                ToString((seconds % 3600) \div 60), "m ",
                ToString(seconds % 60), "s">>

\* format_duration
format_duration(seconds) ==
    IF seconds < 60
    THEN <<ToString(seconds), " seconds">>
    ELSE IF seconds < 3600
         THEN <<ToString(seconds \div 60), "m ", ToString(seconds % 60), "s">>
         ELSE <<ToString(seconds \div 3600), "h ",
                ToString((seconds % 3600) \div 60), "m ",
                ToString(seconds % 60), "s">>

\* the filter of extract_transcript_data: entries with a truthy message
RECURSIVE FormattedTranscript(_)
FormattedTranscript(raw) ==
    IF raw = << >>
    THEN << >>
    ELSE LET entry == Head(raw)
             formatted == [role |-> Get(entry, "role", "unknown"),
                           message |-> Get(entry, "message", "")]
         IN  IF formatted.message \notin {"", None}
             THEN <<formatted>> \o FormattedTranscript(Tail(raw))
             ELSE FormattedTranscript(Tail(raw))

\* mutant: the entries are counted before the filter
extract_transcript_data_counts_raw(body) ==
    LET data == body.data
        transcript_raw == Get(data, "transcript", JArray(<< >>)).items
        formatted == FormattedTranscript(transcript_raw)
    IN  [conversation_id |-> data.conversation_id,
         agent_id |-> data.agent_id,
         transcript |-> formatted,
         message_count |-> Len(transcript_raw),
         raw_transcript |-> transcript_raw]

extract_transcript_data(body) ==
    LET data == body.data
        transcript_raw == Get(data, "transcript", JArray(<< >>)).items
        formatted == FormattedTranscript(transcript_raw)
    IN  [conversation_id |-> data.conversation_id,
         agent_id |-> data.agent_id,
         transcript |-> formatted,
         message_count |-> Len(formatted),
         raw_transcript |-> transcript_raw]

extract_call_statistics(body) ==
    LET metadata == Get(body.data, "metadata", EmptyDict)
        secs == Get(metadata, "call_duration_secs", 0)
    IN  [call_duration_secs |-> secs,
         call_duration_formatted |-> format_duration(secs),
         total_cost_credits |-> Get(metadata, "cost", 0)]

\* analysis.get('transcript_summary', '')
extract_analysis_data(body) ==
    [summary |-> Get(body.data, "summary", JString(<< >>))]

\* the extraction raises: 'data' is null, the transcript is null or a string
\* (not iterable, or iterated into characters that have no .get), or
\* 'metadata' or 'analysis' is null
ExtractRaises(body) ==
    \/ body.data = JNull
    \/ Get(body.data, "transcript", JArray(<< >>)).json # "array"
    \/ Get(body.data, "metadata", EmptyDict) = JNull
    \/ Get(body.data, "analysis", EmptyDict) = JNull

\* webhook_data.get('type', '') raises on a payload that is not an object
TypeRaises(body) == "json" \in DOMAIN body

\* mutant: a failed extraction leaves no error behind
ProcessDropsError(body, t) ==
    IF body.type # PCT \/ ExtractRaises(body)
    THEN [raw_data |-> body]
    ELSE [webhook_type |-> body.type,
          timestamp |-> t,
          conversation_id |-> body.data.conversation_id,
          agent_id |-> body.data.agent_id,
          transcript |-> extract_transcript_data(body),
          statistics |-> extract_call_statistics(body),
          analysis |-> extract_analysis_data(body),
          raw_data |-> body]

process_post_call_webhook(body, t) ==
    IF body.type # PCT
    THEN [error |-> "Unexpected webhook type", raw_data |-> body]
    ELSE IF ExtractRaises(body)
         THEN [error |-> "Error processing webhook", raw_data |-> body]
         ELSE [webhook_type |-> body.type,
               timestamp |-> t,
               conversation_id |-> body.data.conversation_id,
               agent_id |-> body.data.agent_id,
               transcript |-> extract_transcript_data(body),
               statistics |-> extract_call_statistics(body),
               analysis |-> extract_analysis_data(body),
               raw_data |-> body]

\* classify_conversation_stages, when it returns: the entries it was given,
\* each with a stage label
classify_conversation_stages(block) ==
    [message_count |-> block.message_count, transcript |-> block.transcript]

\* mutant: the error type is taken for a completion
StatusAfterErrorCompletes(type, status) ==
    IF type = "conversation.completed" \/ type = PCT \/ type = "conversation.error"
    THEN COMPLETED
    ELSE status

\* the status update by webhook type
StatusAfter(type, status) ==
    IF type = "conversation.completed" \/ type = PCT
    THEN COMPLETED
    ELSE IF type = "conversation.error"
         THEN ERROR
         ELSE status

\* the summary string read for the emission
SummaryOf(pd) == Get(Get(pd, "analysis", EmptyDict), "summary", JString(<< >>))

\* len() of it raises on None
SummaryRaises(pd) == SummaryOf(pd) = JNull

SummaryLimit == 200

Ellipsis == <<".", ".", ".">>

\* mutant: a summary of exactly the limit is cut too
CallSummaryInclusive(chars) ==
    IF Len(chars) >= SummaryLimit
    THEN SubSeq(chars, 1, SummaryLimit) \o Ellipsis
    ELSE chars

\* s[:200] + '...' if len(s) > 200 else s
CallSummary(chars) ==
    IF Len(chars) > SummaryLimit
    THEN SubSeq(chars, 1, SummaryLimit) \o Ellipsis
    ELSE chars

EmitSummary(pd) ==
    [message_count |-> Get(Get(pd, "transcript", EmptyDict), "message_count", 0),
     call_duration |-> Get(Get(pd, "statistics", EmptyDict),
                           "call_duration_formatted", <<"N/A">>),
     call_summary |-> CallSummary(SummaryOf(pd).chars)]

\* ------------------------------------------------------------- state
\* ConversationSession(session_id, agent_id) after __post_init__
NewSession(id, agent, t) ==
    [session_id |-> id,
     agent_id |-> agent,
     conversation_id |-> None,
     status |-> INITIALIZING,
     created_at |-> t,
     updated_at |-> t,
     webhook_data |-> << >>,
     processed_data |-> EmptyDict]

Finish(h, code) == [h EXCEPT !.pc = "done", !.response = code]

\* a delivery after the signature check and the reading of type and
\* conversation_id: rejected, failed, or about to be correlated
NewHandler(req) ==
    LET h == [req |-> req, pc |-> "match", session |-> 0, tier |-> "none",
              response |-> 0]
    IN  IF ~verify_webhook_signature(req)
        THEN Finish(h, 401)
        ELSE IF ParseRaises(req.body)
             THEN Finish(h, 500)
             ELSE h

\* no call is under observation
NoCall == [fn |-> "none"]

Init ==
    /\ sessions = << >>
    /\ handlers = << >>
    /\ received = 0
    /\ emitted = << >>
    /\ now = 0
    /\ call = NoCall

\* no delivery is being handled
Idle == \A i \in DOMAIN handlers : handlers[i].pc = "done"

\* once every delivery is answered and its emissions are sent, the next
\* operation finds none of them
Forget ==
    /\ handlers' = IF Idle THEN << >> ELSE handlers
    /\ emitted' = IF Idle THEN << >> ELSE emitted

SessionIds == 1..MaxSessions

\* ----------------------------------------------------- client operations
\* mutant: the agent key is not looked up before the session is made
create_session_unchecked(agent_key) ==
    /\ Len(sessions) < MaxSessions
    /\ sessions' = Append(sessions,
           NewSession(Len(sessions) + 1,
                      IF agent_key \in DOMAIN agent_configs
                      THEN agent_configs[agent_key] ELSE None,
                      now))
    /\ Forget
    /\ call' = NoCall
    /\ UNCHANGED <<received, now>>

\* POST /api/sessions
create_session(agent_key) ==
    /\ IF agent_key \notin DOMAIN agent_configs
       THEN UNCHANGED sessions
       ELSE /\ Len(sessions) < MaxSessions
            /\ sessions' = Append(sessions,
                   NewSession(Len(sessions) + 1, agent_configs[agent_key], now))
    /\ Forget
    /\ call' = NoCall
    /\ UNCHANGED <<received, now>>

\* mutant: only a session that has not started is activated
JoinedIfInitializing(session) ==
    IF session.status = INITIALIZING
    THEN [session EXCEPT !.status = ACTIVE]
    ELSE session

\* session.status = ConversationStatus.ACTIVE
Joined(session) == [session EXCEPT !.status = ACTIVE]

\* socket event 'join_session'
handle_join_session(session_id) ==
    /\ IF session_id \notin DOMAIN sessions
       THEN UNCHANGED sessions
       ELSE sessions' = [sessions EXCEPT ![session_id] = Joined(@)]
    /\ Forget
    /\ call' = NoCall
    /\ UNCHANGED <<received, now>>

\* mutant: the status is left as it was
StartedKeepsStatus(session, conversation_id, t) ==
    [session EXCEPT !.conversation_id = conversation_id,
                    !.updated_at = t]

\* session.conversation_id = conversation_id; session.status = ACTIVE;
\* session.updated_at = utcnow()
Started(session, conversation_id, t) ==
    [session EXCEPT !.conversation_id = conversation_id,
                    !.status = ACTIVE,
                    !.updated_at = t]

\* the 'conversation_update' emission to the session's room
ConversationUpdate(session_id, conversation_id) ==
    [event |-> "conversation_update", room |-> session_id,
     payload |-> [session_id |-> session_id,
                  conversation_id |-> conversation_id,
                  status |-> "started"]]

\* socket event 'conversation_started'
handle_conversation_started(session_id, conversation_id) ==
    /\ IF session_id \notin DOMAIN sessions
       THEN /\ UNCHANGED sessions
            /\ call' = [fn |-> "handle_conversation_started",
                        arg |-> [session_id |-> session_id,
                                 conversation_id |-> conversation_id],
                        emitted |-> << >>]
       ELSE /\ sessions' = [sessions EXCEPT ![session_id] =
                   Started(@, conversation_id, now)]
            /\ call' = [fn |-> "handle_conversation_started",
                        arg |-> [session_id |-> session_id,
                                 conversation_id |-> conversation_id],
                        emitted |-> <<ConversationUpdate(session_id, conversation_id)>>]
    /\ Forget
    /\ UNCHANGED <<received, now>>

\* the clock moves on
Tick ==
    /\ \E t \in TimePoints : t > now /\ now' = t
    /\ Forget
    /\ call' = NoCall
    /\ UNCHANGED <<sessions, received>>

\* ------------------------------------------------------ webhook handler
\* a delivery reaches POST /webhook and its signature and body are read; the deliveries of an earlier busy period,
\* all answered, are forgotten
Receive(req) ==
    /\ received < MaxDeliveries
    /\ received' = received + 1
    /\ handlers' = Append(IF Idle THEN << >> ELSE handlers, NewHandler(req))
    /\ emitted' = IF Idle THEN << >> ELSE emitted
    /\ call' = NoCall
    /\ UNCHANGED <<sessions, now>>

\* mutant: the recency scan is also run for a callback without agent id
CorrelateRecencyWithoutAgent(S, body, t) ==
    LET exact == ExactMatch(S, body.data.conversation_id)
        agent_id == body.data.agent_id
    IN  IF exact # 0
        THEN <<exact, "exact">>
        ELSE IF body.type = PCT
             THEN IF agent_id \notin {None, ""} /\ MatchingSessions(S, agent_id) # {}
                  THEN <<MaxByCreated(S, MatchingSessions(S, agent_id)), "agent">>
                  ELSE IF RecentSessions(S, t) # {}
                       THEN <<MaxByCreated(S, RecentSessions(S, t)), "recent">>
                       ELSE <<0, "none">>
             ELSE <<0, "none">>

\* the session the scans select: <<session, tier>>
Correlate(S, body, t) ==
    LET exact == ExactMatch(S, body.data.conversation_id)
        agent_id == body.data.agent_id
    IN  IF exact # 0
        THEN <<exact, "exact">>
        ELSE IF body.type = PCT /\ agent_id \notin {None, ""}
             THEN IF MatchingSessions(S, agent_id) # {}
                  THEN <<MaxByCreated(S, MatchingSessions(S, agent_id)), "agent">>
                  ELSE IF RecentSessions(S, t) # {}
                       THEN <<MaxByCreated(S, RecentSessions(S, t)), "recent">>
                       ELSE <<0, "none">>
             ELSE <<0, "none">>

\* the exact scan and the fallback scans; with no session, the response
Match(i) ==
    LET h == handlers[i]
        found == Correlate(sessions, h.req.body, now)
    IN
    /\ h.pc = "match"
    /\ handlers' = [handlers EXCEPT ![i] =
           IF found[1] = 0
           THEN Finish(h, 200)
           ELSE [h EXCEPT !.session = found[1], !.tier = found[2],
                          !.pc = IF found[2] = "exact" THEN "append" ELSE "bind"]]
    /\ call' = NoCall
    /\ UNCHANGED <<sessions, received, emitted, now>>

\* session.conversation_id = conversation_id; session.status = ACTIVE
Linked(session, conversation_id) ==
    [session EXCEPT !.conversation_id = conversation_id, !.status = ACTIVE]

\* the fallback links the conversation to the session it selected
Bind(i) ==
    LET h == handlers[i] IN
    /\ h.pc = "bind"
    /\ sessions' = [sessions EXCEPT ![h.session] =
           Linked(@, h.req.body.data.conversation_id)]
    /\ handlers' = [handlers EXCEPT ![i].pc = "append"]
    /\ call' = NoCall
    /\ UNCHANGED <<received, emitted, now>>

RawEvent(body, t) == [type |-> body.type, timestamp |-> t, data |-> body.data]

\* mutant: the log is replaced by the new event
StoredOverwrites(session, body, t) ==
    [session EXCEPT !.webhook_data = <<RawEvent(body, t)>>,
                    !.updated_at = t]

\* session.webhook_data.append(...); session.updated_at = utcnow()
Stored(session, body, t) ==
    [session EXCEPT !.webhook_data = Append(@, RawEvent(body, t)),
                    !.updated_at = t]

\* the raw event is stored
StoreRaw(i) ==
    LET h == handlers[i] IN
    /\ h.pc = "append"
    /\ sessions' = [sessions EXCEPT ![h.session] = Stored(@, h.req.body, now)]
    /\ handlers' = [handlers EXCEPT ![i].pc =
           IF h.req.body.type = PCT THEN "process" ELSE "status"]
    /\ call' = NoCall
    /\ UNCHANGED <<received, emitted, now>>

\* mutant: the transcript block of an earlier callback is kept
ReplacedKeepsTranscript(session, processed_data) ==
    [session EXCEPT !.processed_data =
        IF "transcript" \in DOMAIN @ /\ "transcript" \in DOMAIN processed_data
        THEN [processed_data EXCEPT !.transcript = session.processed_data.transcript]
        ELSE processed_data]

\* session.processed_data = processed_data
Replaced(session, processed_data) ==
    [session EXCEPT !.processed_data = processed_data]

\* the payload is normalized and stored
Process(i) ==
    LET h == handlers[i]
        processed_data == process_post_call_webhook(h.req.body, now)
    IN
    /\ h.pc = "process"
    /\ sessions' = [sessions EXCEPT ![h.session] = Replaced(@, processed_data)]
    /\ handlers' = [handlers EXCEPT ![i].pc =
           IF "transcript" \in DOMAIN processed_data THEN "classify" ELSE "status"]
    /\ call' = NoCall
    /\ UNCHANGED <<received, emitted, now>>

\* the classification call ends: it returns and its result is stored in the
\* session's processed_data, or it raises and the error is logged
Classify(i, returns) ==
    LET h == handlers[i]
        block == extract_transcript_data(h.req.body)
    IN
    /\ h.pc = "classify"
    /\ IF returns
       THEN sessions' = [sessions EXCEPT ![h.session].processed_data =
                Put(@, "classified_transcript", classify_conversation_stages(block))]
       ELSE UNCHANGED sessions
    /\ handlers' = [handlers EXCEPT ![i].pc = "status"]
    /\ call' = NoCall
    /\ UNCHANGED <<received, emitted, now>>

EmitData(body, session, pd) ==
    LET base == [type |-> body.type, session_id |-> session.session_id,
                 data |-> body.data]
    IN  IF body.type = PCT /\ pd # EmptyDict
        THEN Put(base, "summary", EmitSummary(pd))
        ELSE base

\* the status update, the emission to the session's room and the response;
\* computing the summary raises on a null summary, after the status update
Publish(i) ==
    LET h == handlers[i]
        session == sessions[h.session]
        pd == session.processed_data
    IN
    /\ h.pc = "status"
    /\ sessions' = [sessions EXCEPT ![h.session].status =
           StatusAfter(h.req.body.type, @)]
    /\ IF h.req.body.type = PCT /\ pd # EmptyDict /\ SummaryRaises(pd)
       THEN /\ handlers' = [handlers EXCEPT ![i] = Finish(h, 500)]
            /\ UNCHANGED emitted
       ELSE /\ emitted' = Append(emitted,
                   [event |-> "webhook_update", room |-> session.session_id,
                    payload |-> EmitData(h.req.body, session, pd)])
            /\ handlers' = [handlers EXCEPT ![i] = Finish(h, 200)]
    /\ call' = NoCall
    /\ UNCHANGED <<received, now>>

\* one step of the handler of a delivery
Handle ==
    \/ \E i \in DOMAIN handlers : Match(i)
    \/ \E i \in DOMAIN handlers : Bind(i)
    \/ \E i \in DOMAIN handlers : StoreRaw(i)
    \/ \E i \in DOMAIN handlers : Process(i)
    \/ \E i \in DOMAIN handlers, returns \in BOOLEAN : Classify(i, returns)
    \/ \E i \in DOMAIN handlers : Publish(i)

AgentKeys == DOMAIN agent_configs \cup {"nobody"}

ClientOp ==
    \/ \E k \in AgentKeys : create_session(k)
    \/ \E s \in SessionIds : handle_join_session(s)
    \/ \E s \in SessionIds, c \in ConversationIds :
           handle_conversation_started(s, c)

\* ---------------------------------------------------- specifications
\* deliveries and client operations are handled one at a time
Next ==
    \/ Idle /\ ClientOp
    \/ Idle /\ Tick
    \/ Idle /\ \E req \in Requests : Receive(req)
    \/ Handle

Spec == Init /\ [][Next]_vars

\* the callbacks sent while others are being handled
ConcRequests ==
    { [signature |-> HmacSha256(WEBHOOK_SECRET, b), body |-> b] :
        b \in { [type |-> "conversation.update", data |-> DataOf("c1", None, PlainContent)],
                [type |-> PCT, data |-> DataOf("c1", "agent_clara", PlainContent)],
                [type |-> PCT, data |-> DataOf("c2", "agent_clara", OtherContent)] } }

\* every request is handled in a thread of its own: the steps of the
\* deliveries and the client operations interleave; the clock's jumps of a
\* whole window fall between the busy periods
ConcNext ==
    \/ ClientOp
    \/ Idle /\ Tick
    \/ \E req \in ConcRequests : Receive(req)
    \/ Handle

ConcSpec == Init /\ [][ConcNext]_vars

\* ------------------------------------------------------------ claims
\* what a delivery declares, once its body has been read
TypeOf(h) == h.req.body.type
DeclaredConversation(h) == h.req.body.data.conversation_id
DeclaredAgent(h) == h.req.body.data.agent_id

\* delivery i takes a step of its handler
Stepping(i) ==
    /\ i \in DOMAIN handlers
    /\ i \in DOMAIN handlers'
    /\ handlers[i].pc # "done"
    /\ handlers'[i].req = handlers[i].req
    /\ handlers'[i].pc # handlers[i].pc

\* the sessions holding a conversation id, of an agent and still open, and
\* open and younger than the recency window
Holding(cid) == { s \in DOMAIN sessions : sessions[s].conversation_id = cid }
OpenOfAgent(agent) ==
    { s \in DOMAIN sessions : sessions[s].agent_id = agent
                              /\ sessions[s].status \in {INITIALIZING, ACTIVE} }
OpenAndRecent ==
    { s \in DOMAIN sessions : sessions[s].status \in {INITIALIZING, ACTIVE}
                              /\ now - sessions[s].created_at < 300 }
Latest(I) == { s \in I : \A t \in I : sessions[t].created_at <= sessions[s].created_at }

IsPrefix(a, b) == Len(a) <= Len(b) /\ SubSeq(b, 1, Len(a)) = a

\* C1: a delivery whose signature header is missing or differs from the
\* HMAC-SHA256 of the body under the shared secret is answered 401 at once and
\* is never correlated, so that it changes no session and emits nothing.
C1_UnauthenticRejected ==
    \A i \in DOMAIN handlers :
        handlers[i].req.signature # HmacSha256(WEBHOOK_SECRET, handlers[i].req.body)
        => /\ handlers[i].pc = "done"
           /\ handlers[i].response = 401
           /\ handlers[i].session = 0

\* C2: every answered delivery that passed the signature check is answered
\* 200, and the only other answer of the endpoint is 401.
C2_Answered200 ==
    \A i \in DOMAIN handlers :
        handlers[i].pc = "done"
        => handlers[i].response =
               IF verify_webhook_signature(handlers[i].req) THEN 200 ELSE 401

\* C3: when some session holds the declared conversation id, the scans
\* attribute the callback to a session holding it, the handler goes on to
\* store the event without the linking step of the fallbacks, and the scans
\* change no session, whatever the callback type.
C3_ExactMatchAuthoritative ==
    [][\A i \in DOMAIN handlers :
         (Stepping(i) /\ handlers[i].pc = "match"
          /\ Holding(DeclaredConversation(handlers[i])) # {})
         => /\ handlers'[i].session \in Holding(DeclaredConversation(handlers[i]))
            /\ handlers'[i].pc = "append"
            /\ sessions' = sessions]_vars

C3_Witness ==
    \E i \in DOMAIN handlers :
        /\ handlers[i].pc = "append"
        /\ handlers[i].tier = "exact"
        /\ TypeOf(handlers[i]) = "conversation.error"
        /\ handlers[i].session = 2
        /\ OpenOfAgent(sessions[1].agent_id) # {}

\* C4: a post_call_transcription callback with a declared agent id and no
\* exact match, while some session of that agent is Initializing or Active, is
\* attributed to one of those with the latest created_at; the next step sets
\* that session's conversation_id to the declared id and its status to Active
\* and changes nothing else, before the event is stored.
C4_AgentFallback ==
    [][\A i \in DOMAIN handlers :
         /\ (Stepping(i) /\ handlers[i].pc = "match"
             /\ TypeOf(handlers[i]) = PCT
             /\ DeclaredAgent(handlers[i]) # None
             /\ Holding(DeclaredConversation(handlers[i])) = {}
             /\ OpenOfAgent(DeclaredAgent(handlers[i])) # {})
            => /\ handlers'[i].session \in Latest(OpenOfAgent(DeclaredAgent(handlers[i])))
               /\ handlers'[i].tier = "agent"
               /\ handlers'[i].pc = "bind"
         /\ (Stepping(i) /\ handlers[i].pc = "bind")
            => /\ handlers'[i].pc = "append"
               /\ sessions' = [sessions EXCEPT
                      ![handlers[i].session].conversation_id =
                          DeclaredConversation(handlers[i]),
                      ![handlers[i].session].status = ACTIVE]]_vars

C4_Witness ==
    \E i \in DOMAIN handlers :
        /\ handlers[i].pc = "append"
        /\ handlers[i].tier = "agent"
        /\ handlers[i].session = 1
        /\ Len(sessions) = 2
        /\ sessions[2].agent_id # sessions[1].agent_id
        /\ sessions[2].created_at > sessions[1].created_at
        /\ sessions[2].status = ACTIVE
        /\ sessions[1].status = ACTIVE
        /\ sessions[1].conversation_id = DeclaredConversation(handlers[i])

C6_CorrelationMiss ==
    [][\A i \in DOMAIN handlers :
         (Stepping(i) /\ handlers[i].pc = "match"
          /\ Holding(DeclaredConversation(handlers[i])) = {}
          /\ \/ TypeOf(handlers[i]) # PCT
             \/ DeclaredAgent(handlers[i]) = None
             \/ /\ OpenOfAgent(DeclaredAgent(handlers[i])) = {}
                /\ OpenAndRecent = {})
         => /\ handlers'[i] = [handlers[i] EXCEPT !.pc = "done", !.response = 200]
            /\ handlers'[i].session = 0
            /\ sessions' = sessions
            /\ emitted' = emitted]_vars

C6_Witness ==
    \E i \in DOMAIN handlers :
        /\ handlers[i].pc = "done"
        /\ handlers[i].response = 200
        /\ handlers[i].session = 0
        /\ TypeOf(handlers[i]) = PCT
        /\ DeclaredAgent(handlers[i]) = "agent_zed"
        /\ \E s \in DOMAIN sessions : sessions[s].status \in {INITIALIZING, ACTIVE}
        /\ \A s \in DOMAIN sessions :
               /\ now - sessions[s].created_at >= 300
               /\ sessions[s].webhook_data = << >>
        /\ emitted = << >>

\* C7: looking up a session by its own non-null conversation id returns that
\* session: no two sessions hold the same non-null conversation id.
C7_LookupConsistent ==
    \A s \in DOMAIN sessions :
        sessions[s].conversation_id # None
        => ExactMatch(sessions, sessions[s].conversation_id) = s

\* C8: the last step of a correlated callback leaves the session Completed
\* for 'conversation.completed' and 'post_call_transcription', Error for
\* 'conversation.error', and in the status it had for any other type; between
\* the correlation and that step the handler does not change the status.
C8_StatusByType ==
    [][\A i \in DOMAIN handlers :
         (Stepping(i) /\ handlers[i].pc \in {"append", "process", "classify", "status"})
         => LET s == handlers[i].session
                type == TypeOf(handlers[i])
            IN  IF handlers[i].pc = "status"
                THEN /\ handlers'[i].pc = "done"
                     /\ sessions'[s].status =
                            CASE type \in {"conversation.completed", PCT} -> COMPLETED
                              [] type = "conversation.error" -> ERROR
                              [] OTHER -> sessions[s].status
                ELSE sessions'[s].status = sessions[s].status]_vars

C8_Witness ==
    \E i \in DOMAIN handlers :
        /\ handlers[i].pc = "done"
        /\ handlers[i].response = 200
        /\ handlers[i].session # 0
        /\ TypeOf(handlers[i]) = "conversation.update"
        /\ sessions[handlers[i].session].status = COMPLETED
        /\ Len(sessions[handlers[i].session].webhook_data) = 2

\* C9: no step removes, reorders or rewrites an entry of a session's
\* webhook_data; a callback attributed to a session passes once through the
\* step that stores its event, which appends one entry with the callback's
\* type and data to that session's log and leaves the other logs alone, and
\* no other step of a handler changes a log.
C9_AppendOnly ==
    [][/\ \A s \in DOMAIN sessions :
            /\ s \in DOMAIN sessions'
            /\ IsPrefix(sessions[s].webhook_data, sessions'[s].webhook_data)
       /\ \A i \in DOMAIN handlers :
            Stepping(i)
            => /\ handlers[i].pc = "match" /\ handlers'[i].session # 0
                  => handlers'[i].pc \in {"bind", "append"}
               /\ handlers[i].pc = "bind" => handlers'[i].pc = "append"
               /\ handlers'[i].pc = "append" => handlers[i].pc \in {"match", "bind"}
               /\ \A s \in DOMAIN sessions :
                    IF handlers[i].pc = "append" /\ s = handlers[i].session
                    THEN /\ Len(sessions'[s].webhook_data)
                              = Len(sessions[s].webhook_data) + 1
                         /\ LET e == sessions'[s].webhook_data[Len(sessions'[s].webhook_data)]
                            IN  /\ e.type = TypeOf(handlers[i])
                                /\ e.data = handlers[i].req.body.data
                    ELSE sessions'[s].webhook_data = sessions[s].webhook_data]_vars

C9_Witness ==
    \E s \in DOMAIN sessions :
        /\ Len(sessions[s].webhook_data) = 2
        /\ sessions[s].webhook_data[1].type = "conversation.update"
        /\ sessions[s].webhook_data[2].type = PCT

\* the entries of a log that hold the event of delivery i
EventsOf(log, h) ==
    { p \in DOMAIN log : log[p].type = TypeOf(h) /\ log[p].data = h.req.body.data }

\* C10: two callbacks attributed to the same session and handled concurrently
\* are both in that session's webhook_data once they are answered, the one
\* received first before the other.
C10_ReceiptOrder ==
    \A i, j \in DOMAIN handlers :
        (/\ i < j
         /\ handlers[i].pc = "done" /\ handlers[j].pc = "done"
         /\ handlers[i].session # 0
         /\ handlers[i].session = handlers[j].session)
        => LET log == sessions[handlers[i].session].webhook_data
           IN  \E p \in EventsOf(log, handlers[i]), q \in EventsOf(log, handlers[j]) :
                   p < q

\* the handler of a delivery has gone past the linking step of a fallback
Bound(h) == h.pc \in {"append", "process", "classify", "status", "done"}

\* a fallback scan selected the delivery's session
BySomeFallback(h) == h.session # 0 /\ h.tier \in {"agent", "recent"}

\* C11: of two post_call_transcription callbacks with different conversation
\* ids that are handled concurrently and for which a fallback scan selected
\* the same session, at most one goes through the linking step and on to
\* store its event.
C11_OneBindWins ==
    \A i, j \in DOMAIN handlers :
        (/\ i # j
         /\ BySomeFallback(handlers[i]) /\ BySomeFallback(handlers[j])
         /\ handlers[i].session = handlers[j].session
         /\ DeclaredConversation(handlers[i]) # DeclaredConversation(handlers[j]))
        => ~(Bound(handlers[i]) /\ Bound(handlers[j]))

\* the 'webhook_update' emissions to a room
UpdatesTo(room) ==
    { p \in DOMAIN emitted : emitted[p].event = "webhook_update"
                             /\ emitted[p].room = room }

\* C12: once a delivery that passed the signature check is answered, there is
\* exactly one 'webhook_update' emission if it was attributed to a session,
\* to the room of that session and with its session_id, the callback's type
\* and its data, and no emission at all if it was attributed to none.
C12_OneEmissionPerDelivery ==
    \A i \in DOMAIN handlers :
        (/\ Len(handlers) = 1
         /\ handlers[i].pc = "done"
         /\ verify_webhook_signature(handlers[i].req))
        => IF handlers[i].session = 0
           THEN emitted = << >>
           ELSE /\ Len(emitted) = 1
                /\ emitted[1].event = "webhook_update"
                /\ emitted[1].room = sessions[handlers[i].session].session_id
                /\ emitted[1].payload.session_id = emitted[1].room
                /\ emitted[1].payload.type = TypeOf(handlers[i])
                /\ emitted[1].payload.data = handlers[i].req.body.data

\* ------------------------------------------- functions on their own
\* the longest analysis summary tried
MaxSummaryLen == 204

\* a text of n characters, neighbours differing
Text(n) == [k \in 1..n |-> ToString(k % 10)]

\* processed_data whose analysis block holds a summary of every length
SummaryInputs ==
    { [analysis |-> [summary |-> JString(Text(n))]] : n \in 0..MaxSummaryLen }

\* payloads of other shapes: no transcript, a transcript that is a string,
\* null metadata, null analysis
ShapedData ==
    { [conversation_id |-> "c1", agent_id |-> "agent_clara", summary |-> Summary1],
      [conversation_id |-> "c1", agent_id |-> "agent_clara", summary |-> Summary1,
       transcript |-> JString(<<"h", "i">>)],
      [conversation_id |-> "c1", agent_id |-> None, summary |-> Summary1,
       transcript |-> Transcript1, metadata |-> JNull],
      [conversation_id |-> None, agent_id |-> None,
       transcript |-> Transcript2, analysis |-> JNull],
      [conversation_id |-> "c2", agent_id |-> "agent_zed", transcript |-> Transcript2,
       summary |-> Summary1, metadata |-> [call_duration_secs |-> 125, cost |-> 7]] }

Payloads == Bodies \cup { [type |-> PCT, data |-> d] : d \in ShapedData }

\* the longest raw transcript and the longest call tried
MaxTranscriptLen == 3
MaxSeconds == 3725

\* transcript entries: with and without a message, with a null one, without
\* a role
Entries ==
    { [role |-> "agent", message |-> "a"],
      [role |-> "user", message |-> ""],
      [role |-> "user", message |-> "b"],
      [message |-> "c"],
      [role |-> "agent", message |-> None],
      [role |-> "user"] }

RawTranscripts == UNION { [1..n -> Entries] : n \in 0..MaxTranscriptLen }

TranscriptPayloads ==
    { [type |-> PCT,
       data |-> [conversation_id |-> "c1", agent_id |-> "agent_clara",
                 transcript |-> JArray(raw)]] : raw \in RawTranscripts }

Calls ==
    { [fn |-> "EmitSummary", arg |-> pd, done |-> FALSE] : pd \in SummaryInputs }
    \cup { [fn |-> "process_post_call_webhook", arg |-> b, done |-> FALSE] :
             b \in Payloads }
    \cup { [fn |-> "extract_transcript_data", arg |-> b, done |-> FALSE] :
             b \in TranscriptPayloads }
    \cup { [fn |-> "format_duration", arg |-> n, done |-> FALSE] :
             n \in 0..MaxSeconds }

FnInit ==
    /\ sessions = << >>
    /\ handlers = << >>
    /\ received = 0
    /\ emitted = << >>
    /\ now = 0
    /\ call \in Calls

Returned(value) == [raised |-> FALSE, value |-> value]
Raised == [raised |-> TRUE]

\* emit_data['summary'] is built from processed_data
CallEmitSummary ==
    /\ call.fn = "EmitSummary"
    /\ ~call.done
    /\ call' = [fn |-> call.fn, arg |-> call.arg, done |-> TRUE,
                result |-> IF SummaryRaises(call.arg)
                           THEN Raised
                           ELSE Returned(EmitSummary(call.arg))]
    /\ UNCHANGED <<sessions, handlers, received, emitted, now>>

\* process_post_call_webhook(webhook_data)
CallProcessPostCallWebhook ==
    /\ call.fn = "process_post_call_webhook"
    /\ ~call.done
    /\ call' = [fn |-> call.fn, arg |-> call.arg, done |-> TRUE,
                result |-> IF TypeRaises(call.arg)
                           THEN Raised
                           ELSE Returned(process_post_call_webhook(call.arg, now))]
    /\ UNCHANGED <<sessions, handlers, received, emitted, now>>

\* extract_transcript_data(webhook_data)
CallExtractTranscriptData ==
    /\ call.fn = "extract_transcript_data"
    /\ ~call.done
    /\ call' = [fn |-> call.fn, arg |-> call.arg, done |-> TRUE,
                result |-> Returned(extract_transcript_data(call.arg))]
    /\ UNCHANGED <<sessions, handlers, received, emitted, now>>

\* format_duration(seconds)
CallFormatDuration ==
    /\ call.fn = "format_duration"
    /\ ~call.done
    /\ call' = [fn |-> call.fn, arg |-> call.arg, done |-> TRUE,
                result |-> Returned(format_duration(call.arg))]
    /\ UNCHANGED <<sessions, handlers, received, emitted, now>>

FnNext ==
    \/ CallEmitSummary
    \/ CallProcessPostCallWebhook
    \/ CallExtractTranscriptData
    \/ CallFormatDuration

FnSpec == FnInit /\ [][FnNext]_vars

\* C13: for every analysis summary string s, the call_summary built for the
\* 'webhook_update' is s when s has at most 200 characters, and the first 200
\* characters of s followed by '...' when it has more.
C13_SummaryTruncation ==
    (call.fn = "EmitSummary" /\ call.done)
    => LET s == call.arg.analysis.summary.chars
       IN  /\ ~call.result.raised
           /\ call.result.value.call_summary =
                  IF Len(s) <= 200
                  THEN s
                  ELSE [k \in 1..203 |-> IF k <= 200 THEN s[k] ELSE "."]

C13_Witness ==
    /\ call.fn = "EmitSummary"
    /\ call.done
    /\ Len(call.arg.analysis.summary.chars) = 201
    /\ Len(call.result.value.call_summary) = 203
    /\ call.result.value.call_summary[200] = "0"
    /\ call.result.value.call_summary[201] = "."

C15_NormalizationFailure ==
    \A i \in DOMAIN handlers :
        (/\ handlers[i].pc = "done"
         /\ handlers[i].session # 0
         /\ TypeOf(handlers[i]) = PCT
         /\ handlers[i].req.body.data.transcript.json # "array")
        => LET session == sessions[handlers[i].session]
           IN  /\ EventsOf(session.webhook_data, handlers[i]) # {}
               /\ "error" \in DOMAIN session.processed_data
               /\ session.processed_data.raw_data = handlers[i].req.body
               /\ session.status = COMPLETED
               /\ UpdatesTo(session.session_id) # {}
               /\ handlers[i].response = 200

C15_Witness ==
    \E i \in DOMAIN handlers :
        /\ handlers[i].pc = "done"
        /\ handlers[i].session # 0
        /\ handlers[i].tier = "agent"
        /\ handlers[i].req.body.data.transcript = JNull
        /\ "error" \in DOMAIN sessions[handlers[i].session].processed_data
        /\ Len(sessions[handlers[i].session].webhook_data) = 1
        /\ Len(emitted) = 1

\* C16: in every state the transcript, statistics and analysis blocks of a
\* session's processed_data are all absent, or all present and all derived
\* from one payload, that of a post_call_transcription event in the session's
\* webhook_data: no block of an earlier callback stays next to blocks of a
\* later one.
C16_AtomicDerived ==
    \A s \in DOMAIN sessions :
        LET pd == sessions[s].processed_data
            blocks == {"transcript", "statistics", "analysis"} \cap DOMAIN pd
        IN  \/ blocks = {}
            \/ /\ blocks = {"transcript", "statistics", "analysis"}
               /\ \E p \in DOMAIN sessions[s].webhook_data :
                    LET event == sessions[s].webhook_data[p]
                        payload == [type |-> event.type, data |-> event.data]
                    IN  /\ event.type = PCT
                        /\ pd.raw_data = payload
                        /\ pd.transcript.conversation_id = event.data.conversation_id
                        /\ pd.transcript.raw_transcript = event.data.transcript.items
                        /\ pd.transcript = extract_transcript_data(payload)
                        /\ pd.statistics = extract_call_statistics(payload)
                        /\ pd.analysis.summary = event.data.summary

C16_Witness ==
    \E s \in DOMAIN sessions :
        LET log == sessions[s].webhook_data
            pd == sessions[s].processed_data
        IN  /\ Len(log) = 2
            /\ log[1].type = PCT /\ log[2].type = PCT
            /\ log[1].data.transcript # log[2].data.transcript
            /\ "transcript" \in DOMAIN pd
            /\ "classified_transcript" \in DOMAIN pd
            /\ \A i \in DOMAIN handlers : handlers[i].pc = "done"

\* C17: once a post_call_transcription callback attributed to a session is
\* answered, its normalization having succeeded and its classification having
\* failed (no classified_transcript in processed_data), processed_data is
\* exactly what the normalizer returned, the session is Completed, the
\* 'webhook_update' went to the session's room and the answer is 200.
C17_ClassifierFailure ==
    \A i \in DOMAIN handlers :
        LET session == sessions[handlers[i].session]
            pd == session.processed_data
        IN  (/\ Len(handlers) = 1
             /\ handlers[i].pc = "done"
             /\ handlers[i].session # 0
             /\ TypeOf(handlers[i]) = PCT
             /\ "transcript" \in DOMAIN pd
             /\ "classified_transcript" \notin DOMAIN pd)
            => /\ pd = process_post_call_webhook(handlers[i].req.body, pd.timestamp)
               /\ session.status = COMPLETED
               /\ UpdatesTo(session.session_id) # {}
               /\ handlers[i].response = 200

\* ---------------------------------------------------------- liveness
\* the callbacks of the runs in which every step of a handler that can be
\* taken is taken in the end
LiveRequests ==
    { [signature |-> HmacSha256(WEBHOOK_SECRET, b), body |-> b] :
        b \in { [type |-> PCT, data |-> DataOf("c1", "agent_clara", PlainContent)],
                [type |-> "conversation.update", data |-> DataOf("c1", None, PlainContent)] } }

LiveNext ==
    \/ Idle /\ \E k \in AgentKeys : create_session(k)
    \/ Idle /\ \E req \in LiveRequests : Receive(req)
    \/ Handle

\* the handler's own steps are taken once they can be; the classification
\* call is a request to a remote service, made without a timeout, and nothing
\* makes it end
LiveSpec ==
    /\ Init
    /\ [][LiveNext]_vars
    /\ WF_vars(\E i \in DOMAIN handlers : Match(i))
    /\ WF_vars(\E i \in DOMAIN handlers : Bind(i))
    /\ WF_vars(\E i \in DOMAIN handlers : StoreRaw(i))
    /\ WF_vars(\E i \in DOMAIN handlers : Process(i))
    /\ WF_vars(\E i \in DOMAIN handlers : Publish(i))

\* C18: every delivery that is being handled is answered in the end, also
\* when the classification call never returns.
C18_EventuallyAnswered ==
    (\E i \in DOMAIN handlers : handlers[i].pc # "done")
        ~> (\A i \in DOMAIN handlers : handlers[i].pc = "done")

\* C19: a 'conversation_started' event for a known session sets that
\* session's conversation_id to the value the client sent and its status to
\* Active, leaves the session's identity, log and derived data and every other
\* session as they were, and takes no step of a webhook handler; for an unknown
\* session_id it changes no session and emits nothing.
C19_ConversationStarted ==
    [][call'.fn = "handle_conversation_started"
       => LET s == call'.arg.session_id
              c == call'.arg.conversation_id
          IN  /\ handlers' \in {handlers, << >>}
              /\ emitted' \in {emitted, << >>}
              /\ DOMAIN sessions' = DOMAIN sessions
              /\ \A t \in DOMAIN sessions : t # s => sessions'[t] = sessions[t]
              /\ IF s \in DOMAIN sessions
                 THEN /\ sessions'[s].conversation_id = c
                      /\ sessions'[s].status = ACTIVE
                      /\ \A f \in DOMAIN sessions[s] \ {"conversation_id", "status", "updated_at"} :
                             sessions'[s][f] = sessions[s][f]
                 ELSE call'.emitted = << >>]_vars

C19_Witness ==
    /\ call.fn = "handle_conversation_started"
    /\ call.arg.session_id = 2
    /\ Len(sessions) = 2
    /\ sessions[2].conversation_id = "c1"
    /\ sessions[2].status = ACTIVE
    /\ Len(sessions[2].webhook_data) = 1
    /\ sessions[1].conversation_id = "c1"
    /\ sessions[1].status = COMPLETED
    /\ call.emitted # << >>

\* C20: an operation that changes a session leaves that session's updated_at
\* at the time of the operation: a client operation in its one step, a webhook
\* handler by the time it answers.
C20_UpdatedAtBumped ==
    [][/\ \A s \in DOMAIN sessions :
            (/\ s \in DOMAIN sessions'
             /\ sessions'[s] # sessions[s]
             /\ \A i \in DOMAIN handlers : ~Stepping(i))
            => sessions'[s].updated_at = now'
       /\ \A i \in DOMAIN handlers :
            (Stepping(i) /\ handlers'[i].pc = "done" /\ handlers[i].session # 0)
            => sessions'[handlers[i].session].updated_at = now']_vars

\* the agent ids of the registry
RegisteredAgents == { agent_configs[k] : k \in DOMAIN agent_configs }

\* C21: every session is stored under its own session_id and is of a
\* registered agent (no session is made for an agent key outside the
\* registry); no step removes a session from the store or changes its
\* session_id or agent_id, and a step adds at most one session, a fresh one.
C21_IdentityStable ==
    [][/\ \A s \in DOMAIN sessions :
            /\ sessions[s].session_id = s
            /\ sessions[s].agent_id \in RegisteredAgents
            /\ s \in DOMAIN sessions'
            /\ sessions'[s].session_id = sessions[s].session_id
            /\ sessions'[s].agent_id = sessions[s].agent_id
       /\ \A s \in DOMAIN sessions' \ DOMAIN sessions :
            /\ DOMAIN sessions' = DOMAIN sessions \cup {s}
            /\ sessions'[s].session_id = s
            /\ sessions'[s].agent_id \in RegisteredAgents
            /\ sessions'[s].status = INITIALIZING
            /\ sessions'[s].conversation_id = None]_vars

C21_Witness ==
    \E i \in DOMAIN handlers :
        /\ handlers[i].pc = "done"
        /\ handlers[i].tier = "recent"
        /\ handlers[i].session = 1
        /\ Len(sessions) = 2
        /\ sessions[1].session_id = 1
        /\ sessions[1].agent_id = "agent_marcus"
        /\ sessions[1].conversation_id = "c1"
        /\ sessions[1].status = COMPLETED
        /\ sessions[2].agent_id = "agent_clara"
        /\ sessions[2].status = COMPLETED
        /\ sessions[2].session_id = 2

\* C22: for every raw transcript, the transcript of the block holds, in the
\* order of the input, one entry for each raw entry whose message is not
\* empty, with that entry's role and message, and none for the others;
\* message_count is its length and raw_transcript is the input as it came.
C22_TranscriptBlock ==
    (call.fn = "extract_transcript_data" /\ call.done)
    => LET raw == call.arg.data.transcript.items
           out == call.result.value
           kept == { p \in DOMAIN raw : /\ "message" \in DOMAIN raw[p]
                                        /\ raw[p].message # ""
                                        /\ raw[p].message # None }
           rank(p) == Cardinality({ q \in kept : q <= p })
       IN  /\ Len(out.transcript) = Cardinality(kept)
           /\ \A p \in kept :
                /\ out.transcript[rank(p)].message = raw[p].message
                /\ out.transcript[rank(p)].role =
                       IF "role" \in DOMAIN raw[p] THEN raw[p].role ELSE "unknown"
           /\ out.message_count = Len(out.transcript)
           /\ out.raw_transcript = raw

C22_Witness ==
    /\ call.fn = "extract_transcript_data"
    /\ call.done
    /\ Len(call.arg.data.transcript.items) = 3
    /\ call.arg.data.transcript.items[1] = [role |-> "user", message |-> "b"]
    /\ call.arg.data.transcript.items[2] = [role |-> "user", message |-> ""]
    /\ call.arg.data.transcript.items[3] = [message |-> "c"]
    /\ call.result.value.message_count = 2
    /\ call.result.value.transcript[2].message = "c"

\* C23: for every number of seconds n >= 0, format_duration(n) is
\* '<n> seconds' when n < 60, '<n div 60>m <n mod 60>s' when 60 <= n < 3600,
\* and '<n div 3600>h <(n mod 3600) div 60>m <n mod 60>s' when n >= 3600; 45
\* gives '45 seconds', 125 gives '2m 5s' and 3725 gives '1h 2m 5s'.
C23_DurationFormat ==
    (call.fn = "format_duration" /\ call.done)
    => LET n == call.arg
           text == call.result.value
       IN  /\ n < 60 => text = <<ToString(n), " seconds">>
           /\ (60 <= n /\ n < 3600)
              => text = <<ToString(n \div 60), "m ", ToString(n % 60), "s">>
           /\ n >= 3600
              => text = <<ToString(n \div 3600), "h ",
                         ToString((n % 3600) \div 60), "m ", ToString(n % 60), "s">>
           /\ n = 45 => text = <<"45", " seconds">>
           /\ n = 125 => text = <<"2", "m ", "5", "s">>
           /\ n = 3725 => text = <<"1", "h ", "2", "m ", "5", "s">>

C23_Witness ==
    /\ call.fn = "format_duration"
    /\ call.done
    /\ call.arg = 3725
    /\ call.result.value = <<"1", "h ", "2", "m ", "5", "s">>

\* C24: the exact-match step attributes no callback that declares no
\* conversation id: a delivery attributed by that step declares one.
C24_NullNeverMatches ==
    \A i \in DOMAIN handlers :
        (handlers[i].session # 0 /\ handlers[i].tier = "exact")
        => DeclaredConversation(handlers[i]) # None

\* C25: the linking step of a fallback leaves a conversation_id that is not
\* null as it is: it only ever sets one that was null.
C25_BoundStaysBound ==
    [][\A i \in DOMAIN handlers :
         (Stepping(i) /\ handlers[i].pc = "bind")
         => LET s == handlers[i].session
            IN  sessions[s].conversation_id \in {None, sessions'[s].conversation_id}]_vars

\* the deliveries of post_call_transcription callbacks that declare no agent
\* id and a conversation id no session holds
UnmatchedWithoutAgent ==
    { i \in DOMAIN handlers :
        /\ handlers[i].response # 500 /\ handlers[i].response # 401
        /\ TypeOf(handlers[i]) = PCT
        /\ DeclaredAgent(handlers[i]) = None
        /\ Holding(DeclaredConversation(handlers[i])) = {} }

\* C26 as claimed: such a callback, once the scans are done, is attributed to
\* one of the latest sessions that are Initializing or Active and younger than
\* 300 seconds, when there is one.
C26_RecencyWithoutAgentAsClaimed ==
    \A i \in UnmatchedWithoutAgent :
        (handlers[i].pc # "match" /\ OpenAndRecent # {})
        => handlers[i].session \in Latest(OpenAndRecent)

\* C26 amended: such a callback gets no fallback at all: it is attributed to
\* no session and, once the scans are done, answered 200, whatever sessions
\* are Initializing or Active and recent.
C26_NoFallbackWithoutAgent ==
    \A i \in UnmatchedWithoutAgent :
        /\ handlers[i].session = 0
        /\ handlers[i].pc \in {"match", "done"}
        /\ handlers[i].pc = "done" => handlers[i].response = 200

C26_Witness ==
    \E i \in UnmatchedWithoutAgent :
        /\ handlers[i].pc = "done"
        /\ handlers[i].response = 200
        /\ handlers[i].session = 0
        /\ DeclaredConversation(handlers[i]) = "c1"
        /\ OpenAndRecent = {1, 2}
        /\ \A s \in DOMAIN sessions : sessions[s].webhook_data = << >>

\* C27: a 'join_session' event for a known session leaves that session
\* Active, whatever its status was, Completed and Error included, and leaves
\* its conversation_id, webhook_data and processed_data and every other
\* session as they were.
C27_JoinReactivates ==
    [][\A s \in SessionIds :
         (s \in DOMAIN sessions /\ handle_join_session(s))
         => /\ sessions'[s].status = ACTIVE
            /\ sessions'[s].conversation_id = sessions[s].conversation_id
            /\ sessions'[s].webhook_data = sessions[s].webhook_data
            /\ sessions'[s].processed_data = sessions[s].processed_data
            /\ \A t \in DOMAIN sessions : t # s => sessions'[t] = sessions[t]]_vars

\* a session that was Completed by a callback without conversation id and
\* joined again is selected by the agent scan for a later callback
C27_Witness ==
    \E i \in DOMAIN handlers :
        /\ handlers[i].pc = "bind"
        /\ handlers[i].tier = "agent"
        /\ DeclaredConversation(handlers[i]) = "c1"
        /\ LET session == sessions[handlers[i].session]
           IN  /\ session.status = ACTIVE
               /\ session.conversation_id = None
               /\ Len(session.webhook_data) = 1
               /\ session.webhook_data[1].type = PCT
               /\ "transcript" \in DOMAIN session.processed_data

\* C28: in every state a classified_transcript in a session's processed_data
\* stands next to the transcript block it was computed from, and next to the
\* statistics and analysis blocks.
C28_ClassifiedFromStored ==
    \A s \in DOMAIN sessions :
        LET pd == sessions[s].processed_data
        IN  "classified_transcript" \in DOMAIN pd
            => /\ {"transcript", "statistics", "analysis"} \subseteq DOMAIN pd
               /\ pd.classified_transcript.transcript = pd.transcript.transcript
               /\ pd.classified_transcript.message_count = pd.transcript.message_count

====
